---- MODULE Spec2Model ----
(***************************************************************************)
(* Model of hooks/check-todos-from-transcript.py: one invocation of main,  *)
(* from reading the hook input on stdin, through the single pass over the  *)
(* transcript (extract_tool_calls_from_entry + the TodoWrite / TaskCreate  *)
(* / TaskUpdate reducers of find_incomplete_items), to the report and the  *)
(* exit code.                                                              *)
(***************************************************************************)
EXTENDS Integers, Sequences, FiniteSets, TLC

VARIABLES
    stdin,          \* text on standard input (input)
    snapshot,       \* the session's task directory on disk (input; "absent" or files)
    pc,             \* position of main: "start","open","loop","calls","return","exited"
    log,            \* lines of the transcript read so far, as text
    calls,          \* tool calls of the current entry still to be processed
    events,         \* every tool call processed so far, in order (history)
    latest_todos,   \* find_incomplete_items: latest_todos
    tasks,          \* find_incomplete_items: tasks (dict, in insertion order)
    next_task_id,   \* find_incomplete_items: next_task_id
    incomplete,     \* the list find_incomplete_items returns
    stdout,         \* lines printed to stdout
    stderr,         \* lines printed to stderr
    exit_code,      \* process exit code, NoExit while running
    exc             \* uncaught exception ending the process, "" if none

vars == <<stdin, snapshot, pc, log, calls, events, latest_todos, tasks,
          next_task_id, incomplete, stdout, stderr, exit_code, exc>>

(***************************************************************************)
(* Bounds.                                                                 *)
(***************************************************************************)
MaxLines == 3       \* longest transcript explored, in lines

NoExit == 0 - 1     \* exit_code of a process that has not exited

(***************************************************************************)
(* JSON values as json.loads returns them, tagged by Python type.          *)
(***************************************************************************)
S(s) == [k |-> "str", v |-> s]
N(n) == [k |-> "num", v |-> n]
L(l) == [k |-> "list", v |-> l]
O(o) == [k |-> "obj", v |-> o]
Null == [k |-> "null", v |-> "None"]
EmptyDict == O(<<>>)
EmptyList == L(<<>>)

\* isinstance(x, dict), isinstance(x, list)
IsDict(x) == x.k = "obj"
IsList(x) == x.k = "list"

\* bool(x): Python truthiness
Truthy(x) ==
    CASE x.k = "str"  -> x.v # ""
      [] x.k = "num"  -> x.v # 0
      [] x.k = "null" -> FALSE
      [] x.k = "list" -> Len(x.v) > 0
      [] x.k = "obj"  -> DOMAIN x.v # {}

\* a or b
PyOr(a, b) == IF Truthy(a) THEN a ELSE b

\* key in d, d.get(key, default) for a dict d
Has(d, key) == key \in DOMAIN d.v
Get(d, key, default) == IF Has(d, key) THEN d.v[key] ELSE default

\* hash(x) succeeds: lists and dicts are unhashable
Hashable(x) == x.k \notin {"list", "obj"}

\* str(x) / f"{x}" for the scalars that reach a format string
PyStr(x) ==
    CASE x.k = "str"  -> x.v
      [] x.k = "num"  -> ToString(x.v)
      [] x.k = "null" -> "None"
      [] x.k = "list" -> "[...]"
      [] x.k = "obj"  -> "{...}"

\* max(J) for a non-empty set of integers
Max(J) == CHOOSE j \in J : \A i \in J : i <= j

(***************************************************************************)
(* Results of a computation that may raise.                                *)
(***************************************************************************)
Ok(x)    == [ok |-> TRUE,  val |-> x,    err |-> ""]
Raise(e) == [ok |-> FALSE, val |-> Null, err |-> e]

(***************************************************************************)
(* extract_tool_calls_from_entry                                           *)
(***************************************************************************)
Call(name, input) == [name |-> name, input |-> input]

\* the loop body over content: one call per tool_use block with a truthy name
BlockCalls(block) ==
    IF IsDict(block) /\ Get(block, "type", Null) = S("tool_use")
       /\ Truthy(Get(block, "name", S("")))
    THEN <<Call(Get(block, "name", S("")), Get(block, "input", EmptyDict))>>
    ELSE <<>>

RECURSIVE ContentCalls(_)
ContentCalls(blocks) ==
    IF blocks = <<>> THEN <<>>
    ELSE BlockCalls(Head(blocks)) \o ContentCalls(Tail(blocks))

\* the tool calls of content when it is a list, none otherwise
ListCalls(content) == IF IsList(content) THEN ContentCalls(content.v) ELSE <<>>

\* Pattern 1: type == "assistant", calls under entry.message.content
Pattern1(entry) ==
    IF Get(entry, "type", Null) # S("assistant") THEN Ok(<<>>)
    ELSE LET message == Get(entry, "message", EmptyDict)
         IN  IF ~IsDict(message) THEN Raise("AttributeError")
             ELSE Ok(ListCalls(Get(message, "content", EmptyList)))

\* Pattern 2: type == "message", calls under entry.content
Pattern2(entry) ==
    IF Get(entry, "type", Null) # S("message") THEN <<>>
    ELSE ListCalls(Get(entry, "content", EmptyList))

\* Pattern 3 as it would be without the alternate field names
Pattern3WithoutAlternates(entry) ==
    IF Get(entry, "type", Null) # S("tool_use") THEN <<>>
    ELSE IF Truthy(Get(entry, "name", S("")))
         THEN <<Call(Get(entry, "name", S("")), Get(entry, "input", EmptyDict))>>
         ELSE <<>>

\* Pattern 3: type == "tool_use", the entry itself is the call
Pattern3(entry) ==
    IF Get(entry, "type", Null) # S("tool_use") THEN <<>>
    ELSE LET tool_name  == PyOr(Get(entry, "name", S("")), Get(entry, "tool_name", S("")))
             tool_input == PyOr(Get(entry, "input", EmptyDict),
                                Get(entry, "tool_input", EmptyDict))
         IN  IF Truthy(tool_name) THEN <<Call(tool_name, tool_input)>> ELSE <<>>

extract_tool_calls_from_entry(entry) ==
    IF ~IsDict(entry) THEN Raise("AttributeError")
    ELSE LET p1 == Pattern1(entry)
         IN  IF ~p1.ok THEN p1
             ELSE Ok(p1.val \o Pattern2(entry) \o Pattern3(entry))

(***************************************************************************)
(* find_incomplete_items: the accumulators and the three reducers.  The    *)
(* pass state is st = [latest_todos, tasks, next_task_id]; tasks is the    *)
(* dict as the sequence of its entries in insertion order.                 *)
(***************************************************************************)
Task(id, subject, description, status) ==
    [id |-> id, subject |-> subject, description |-> description, status |-> status]

InitPass == [latest_todos |-> EmptyList, tasks |-> <<>>, next_task_id |-> 1]

Keys(ts) == {ts[i].id : i \in DOMAIN ts}

\* task_id in tasks
HasKey(ts, id) == id \in Keys(ts)

\* tasks[task_id]
Lookup(ts, id) == ts[CHOOSE i \in DOMAIN ts : ts[i].id = id]

\* the assignment as it would be if an assigned key were moved to the end
SetTaskMovingLast(ts, id, task) ==
    Append(SelectSeq(ts, LAMBDA t : t.id # id), task)

\* tasks[task_id] = task: an existing key keeps its place, a new key goes last
SetTask(ts, id, task) ==
    IF HasKey(ts, id)
    THEN [i \in DOMAIN ts |-> IF ts[i].id = id THEN task ELSE ts[i]]
    ELSE Append(ts, task)

\* TodoWrite as it would be without the test "if todos"
TodoWriteClearing(st, tool_input) ==
    IF ~IsDict(tool_input) THEN Raise("AttributeError")
    ELSE Ok([st EXCEPT !.latest_todos = Get(tool_input, "todos", EmptyList)])

\* TodoWrite as it would be if a write were merged into the list it replaces
TodoWriteMerging(st, tool_input) ==
    IF ~IsDict(tool_input) THEN Raise("AttributeError")
    ELSE LET todos == Get(tool_input, "todos", EmptyList)
         IN  IF Truthy(todos)
             THEN Ok([st EXCEPT !.latest_todos =
                        IF IsList(todos) /\ IsList(@) THEN L(@.v \o todos.v) ELSE todos])
             ELSE Ok(st)

\* tool_name == "TodoWrite"
TodoWrite(st, tool_input) ==
    IF ~IsDict(tool_input) THEN Raise("AttributeError")
    ELSE LET todos == Get(tool_input, "todos", EmptyList)
         IN  IF Truthy(todos) THEN Ok([st EXCEPT !.latest_todos = todos])
             ELSE Ok(st)

\* TaskCreate as it would be if it stored the task under the id its payload declares
TaskCreateTrustingDeclaredId(st, tool_input) ==
    IF ~IsDict(tool_input) THEN Raise("AttributeError")
    ELSE LET task_id == Get(tool_input, "taskId", S(ToString(st.next_task_id)))
         IN  Ok([st EXCEPT
                   !.next_task_id = st.next_task_id + 1,
                   !.tasks = SetTask(st.tasks, task_id,
                                Task(task_id, Get(tool_input, "subject", S("")),
                                     Get(tool_input, "description", S("")), S("pending")))])

\* TaskCreate as it would be if it took the status of its payload
TaskCreateTrustingStatus(st, tool_input) ==
    IF ~IsDict(tool_input) THEN Raise("AttributeError")
    ELSE LET task_id == S(ToString(st.next_task_id))
         IN  Ok([st EXCEPT
                   !.next_task_id = st.next_task_id + 1,
                   !.tasks = SetTask(st.tasks, task_id,
                                Task(task_id, Get(tool_input, "subject", S("")),
                                     Get(tool_input, "description", S("")),
                                     Get(tool_input, "status", S("pending"))))])

\* tool_name == "TaskCreate"
TaskCreate(st, tool_input) ==
    IF ~IsDict(tool_input) THEN Raise("AttributeError")
    ELSE LET subject     == Get(tool_input, "subject", S(""))
             description == Get(tool_input, "description", S(""))
             task_id     == S(ToString(st.next_task_id))
         IN  Ok([st EXCEPT
                   !.next_task_id = st.next_task_id + 1,
                   !.tasks = SetTask(st.tasks, task_id,
                                Task(task_id, subject, description, S("pending")))])

\* the placeholder as it would be without the "Task <id>" default subject
PlaceholderNoDefault(task_id, tool_input) ==
    Task(task_id, Get(tool_input, "subject", S("")),
         Get(tool_input, "description", S("")), S("pending"))

\* the placeholder of a TaskUpdate on an id that is not in tasks
Placeholder(task_id, tool_input) ==
    Task(task_id,
         Get(tool_input, "subject", S("Task " \o PyStr(task_id))),
         Get(tool_input, "description", S("")),
         S("pending"))

\* "Apply updates": each of status, subject, description present in tool_input
ApplyUpdates(task, tool_input) ==
    [task EXCEPT
       !.status      = IF Has(tool_input, "status") THEN tool_input.v["status"] ELSE @,
       !.subject     = IF Has(tool_input, "subject") THEN tool_input.v["subject"] ELSE @,
       !.description = IF Has(tool_input, "description")
                       THEN tool_input.v["description"] ELSE @]

\* TaskUpdate as it would be without the test "if task_id"
TaskUpdateWithoutIdTest(st, tool_input) ==
    IF ~IsDict(tool_input) THEN Raise("AttributeError")
    ELSE LET task_id == Get(tool_input, "taskId", S(""))
         IN  IF ~Hashable(task_id) THEN Raise("TypeError")
             ELSE LET base == IF HasKey(st.tasks, task_id) THEN Lookup(st.tasks, task_id)
                              ELSE Placeholder(task_id, tool_input)
                  IN  Ok([st EXCEPT !.tasks =
                            SetTask(st.tasks, task_id, ApplyUpdates(base, tool_input))])

\* tool_name == "TaskUpdate"
TaskUpdate(st, tool_input) ==
    IF ~IsDict(tool_input) THEN Raise("AttributeError")
    ELSE LET task_id == Get(tool_input, "taskId", S(""))
         IN  IF ~Truthy(task_id) THEN Ok(st)
             ELSE IF ~Hashable(task_id) THEN Raise("TypeError")
             ELSE LET base == IF HasKey(st.tasks, task_id) THEN Lookup(st.tasks, task_id)
                              ELSE Placeholder(task_id, tool_input)
                  IN  Ok([st EXCEPT !.tasks =
                            SetTask(st.tasks, task_id, ApplyUpdates(base, tool_input))])

\* the dispatch as it would be if a new todo list also started a new set of tasks
ApplyCallResettingTasks(st, call) ==
    CASE call.name = S("TodoWrite")  ->
            LET r == TodoWrite(st, call.input)
            IN  IF r.ok /\ r.val.latest_todos # st.latest_todos
                THEN Ok([r.val EXCEPT !.tasks = <<>>, !.next_task_id = 1])
                ELSE r
      [] call.name = S("TaskCreate") -> TaskCreate(st, call.input)
      [] call.name = S("TaskUpdate") -> TaskUpdate(st, call.input)
      [] OTHER                       -> Ok(st)

\* the body of "for tool_name, tool_input in ...": dispatch on the tool name
ApplyCall(st, call) ==
    CASE call.name = S("TodoWrite")  -> TodoWrite(st, call.input)
      [] call.name = S("TaskCreate") -> TaskCreate(st, call.input)
      [] call.name = S("TaskUpdate") -> TaskUpdate(st, call.input)
      [] OTHER                       -> Ok(st)

(***************************************************************************)
(* find_incomplete_items: building the list of incomplete items.           *)
(***************************************************************************)
TodoItem(status, content) == [status |-> status, content |-> content, source |-> "todo"]
TaskItem(status, content, id) ==
    [status |-> status, content |-> content, source |-> "task", task_id |-> id]

\* "for todo in latest_todos": the items of the incomplete todos, in order
RECURSIVE TodoLoop(_)
TodoLoop(todos) ==
    IF todos = <<>> THEN Ok(<<>>)
    ELSE LET todo == Head(todos)
         IN  IF ~IsDict(todo) THEN Raise("AttributeError")
             ELSE LET status  == Get(todo, "status", S(""))
                      content == Get(todo, "content", S(""))
                      rest    == TodoLoop(Tail(todos))
                  IN  IF ~rest.ok THEN rest
                      ELSE IF status # S("completed")
                      THEN Ok(<<TodoItem(status, content)>> \o rest.val)
                      ELSE rest

\* iterating latest_todos: a list yields its elements; a non-empty str or dict
\* yields strings, on which .get raises; a number is not iterable
IncompleteTodos(todos) ==
    CASE todos.k = "list" -> TodoLoop(todos.v)
      [] todos.k = "num"  -> Raise("TypeError")
      [] OTHER            -> Raise("AttributeError")

\* the task loop as it would be if an empty description fell back to "Task <id>"
RECURSIVE IncompleteTasksWithPlaceholder(_)
IncompleteTasksWithPlaceholder(ts) ==
    IF ts = <<>> THEN <<>>
    ELSE LET task    == Head(ts)
             content == PyOr(PyOr(task.subject, task.description),
                             S("Task " \o PyStr(task.id)))
         IN  IF task.status # S("completed")
             THEN <<TaskItem(task.status, content, task.id)>>
                      \o IncompleteTasksWithPlaceholder(Tail(ts))
             ELSE IncompleteTasksWithPlaceholder(Tail(ts))

\* the task loop as it would be without the test on "completed"
IncompleteTasksUnfiltered(ts) ==
    [i \in DOMAIN ts |->
        TaskItem(ts[i].status, PyOr(ts[i].subject, ts[i].description), ts[i].id)]

\* "for task_id, task in tasks.items()"
RECURSIVE IncompleteTasks(_)
IncompleteTasks(ts) ==
    IF ts = <<>> THEN <<>>
    ELSE LET task    == Head(ts)
             content == PyOr(task.subject, task.description)
         IN  IF task.status # S("completed")
             THEN <<TaskItem(task.status, content, task.id)>> \o IncompleteTasks(Tail(ts))
             ELSE IncompleteTasks(Tail(ts))

\* lines 137-164: incomplete todos first, then incomplete tasks
BuildIncomplete(st) ==
    LET t == IncompleteTodos(st.latest_todos)
    IN  IF ~t.ok THEN t ELSE Ok(t.val \o IncompleteTasks(st.tasks))

(***************************************************************************)
(* main: the report.                                                       *)
(***************************************************************************)
\* the line of an item as it would be without the task marker
FormatItemWithoutMarker(item) ==
    "  - [" \o PyStr(item.status) \o "] " \o PyStr(item.content)

FormatItem(item) ==
    IF item.source = "task"
    THEN "  - [" \o PyStr(item.status) \o "] (Task #" \o PyStr(item.task_id) \o ") "
         \o PyStr(item.content)
    ELSE "  - [" \o PyStr(item.status) \o "] " \o PyStr(item.content)

output_lines(items) == [i \in DOMAIN items |-> FormatItem(items[i])]

(***************************************************************************)
(* Text: stdin and the lines of the transcript.  A text is blank, the      *)
(* serialisation of a JSON value, or something json.loads rejects; ws says *)
(* whether it carries leading or trailing whitespace (a line read from a   *)
(* file ends with its newline).                                            *)
(***************************************************************************)
Text(ws, k, v) == [ws |-> ws, k |-> k, v |-> v]
EmptyText   == Text(FALSE, "empty", "")
BlankText   == Text(TRUE, "empty", "")
BadText(s)  == Text(TRUE, "bad", s)
JsonText(x) == Text(TRUE, "json", x)

\* str.strip()
Strip(t) == [t EXCEPT !.ws = FALSE]

\* "not text": the empty string
IsEmptyStr(t) == t.k = "empty" /\ ~t.ws

\* json.loads
JsonLoads(t) == IF t.k = "json" THEN Ok(t.v) ELSE Raise("JSONDecodeError")

(***************************************************************************)
(* The inputs explored.                                                    *)
(***************************************************************************)
Todo(status, content) == O([status |-> S(status), content |-> S(content)])
ToolUse(name, input) == O([type |-> S("tool_use"), name |-> S(name), input |-> input])
Assistant(blocks) ==
    O([type |-> S("assistant"), message |-> O([role |-> S("assistant"), content |-> L(blocks)])])

TodosA == L(<<Todo("pending", "a")>>)
TodosB == L(<<Todo("completed", "a"), Todo("in_progress", "b"), O([content |-> S("c")])>>)

UpdNoId    == O([status |-> S("completed"), subject |-> S("s5")])
UpdEmptyId == O([taskId |-> S(""), status |-> S("completed")])

\* records that parse and whose processing raises nothing
GoodEntries == {
    O([type |-> S("message"), content |-> L(<<ToolUse("TodoWrite", O([todos |-> TodosA]))>>)]),
    Assistant(<<ToolUse("TodoWrite", O([todos |-> TodosB]))>>),
    Assistant(<<ToolUse("TodoWrite", O([todos |-> EmptyList])), ToolUse("TodoWrite", EmptyDict)>>),
    O([type |-> S("tool_use"), name |-> S(""), tool_name |-> S("TaskCreate"),
       input |-> EmptyDict,
       tool_input |-> O([subject |-> S("s1"), description |-> S("d1"),
                         status |-> S("completed"), taskId |-> S("7")])]),
    Assistant(<<ToolUse("TaskCreate", EmptyDict)>>),
    Assistant(<<ToolUse("TaskUpdate", O([taskId |-> S("1"), status |-> S("completed")]))>>),
    Assistant(<<ToolUse("TaskUpdate", O([taskId |-> S("1"), subject |-> S("s2")]))>>),
    Assistant(<<ToolUse("TaskUpdate", O([taskId |-> S("2"), description |-> S("d2"),
                                        status |-> S("in_progress")]))>>),
    Assistant(<<ToolUse("TaskUpdate", O([taskId |-> S("7")]))>>),
    Assistant(<<O([type |-> S("text"), text |-> S("hi")]), S("x"),
                O([type |-> S("tool_use"), input |-> EmptyDict]),
                ToolUse("TaskUpdate", UpdNoId), ToolUse("TaskUpdate", UpdEmptyId),
                ToolUse("Bash", O([command |-> S("ls")]))>>),
    O([type |-> S("user"), message |-> O([content |-> S("hello")])]),
    Assistant(<<ToolUse("TodoWrite", O([todos |-> L(<<N(1)>>)]))>>)
}

\* JSON lines on which the pass raises
BadEntries == {
    L(<<>>),
    N(5),
    O([type |-> S("assistant"), message |-> Null]),
    Assistant(<<ToolUse("TodoWrite", Null)>>),
    Assistant(<<ToolUse("TaskUpdate", O([taskId |-> L(<<S("1")>>)]))>>)
}

Lines == {BlankText, BadText("{\"type\": \"assi")}
             \cup {JsonText(e) : e \in GoodEntries \cup BadEntries}

\* the file system: expanduser and the paths that exist
expanduser(path) == IF path = "~/missing.jsonl" THEN "/home/u/missing.jsonl" ELSE path
Exists(path) == path \in {"/t/log.jsonl"}

HookInput(path) == O([transcript_path |-> path, session_id |-> S("s1")])

Stdins == {
    EmptyText,
    BlankText,
    BadText("{\"transcript_path\":"),
    JsonText(HookInput(S("/t/log.jsonl"))),
    JsonText(HookInput(S("~/missing.jsonl"))),
    JsonText(HookInput(S(""))),
    JsonText(O([session_id |-> S("s1")])),
    JsonText(HookInput(N(5))),
    JsonText(L(<<>>))
}

\* the task directory of session s1: absent, or one file per task id
SnapFile(id, fields) == [id |-> id, fields |-> fields]
Snapshots == {
    [present |-> FALSE, files |-> <<>>],
    [present |-> TRUE,
     files |-> <<SnapFile("7", O([status |-> S("pending"), subject |-> S("fix bug")])),
                 SnapFile("8", O([status |-> S("completed"), subject |-> S("done")])),
                 SnapFile("9", O([status |-> S("deleted"), subject |-> S("gone")])),
                 SnapFile("10", O([status |-> S("in_progress"), description |-> S("d10")])),
                 SnapFile("11", EmptyDict)>>]
}

(***************************************************************************)
(* The state machine: one invocation of main.                              *)
(***************************************************************************)
Init ==
    /\ stdin \in Stdins
    /\ snapshot \in Snapshots
    /\ pc = "start"
    /\ log = <<>>
    /\ calls = <<>>
    /\ events = <<>>
    /\ latest_todos = InitPass.latest_todos
    /\ tasks = InitPass.tasks
    /\ next_task_id = InitPass.next_task_id
    /\ incomplete = <<>>
    /\ stdout = <<>>
    /\ stderr = <<>>
    /\ exit_code = NoExit
    /\ exc = ""

Pass == [latest_todos |-> latest_todos, tasks |-> tasks, next_task_id |-> next_task_id]

\* sys.exit(code)
Exit(code) ==
    /\ pc' = "exited"
    /\ exit_code' = code
    /\ exc' = ""

\* an exception nothing catches: the interpreter prints the traceback to
\* stderr and exits with status 1
Uncaught(e) ==
    /\ pc' = "exited"
    /\ exit_code' = 1
    /\ exc' = e
    /\ stderr' = Append(stderr, "Traceback: " \o e)

\* sys.stdin.read() with the strip left out
read_stdin_unstripped(t) == t

\* line 171: sys.stdin.read().strip()
read_stdin(t) == Strip(t)

\* main, lines 170-183: read and decode the hook input
ReadHookInput ==
    /\ pc = "start"
    /\ LET stdin_content == read_stdin(stdin)
           hook_input    == JsonLoads(stdin_content)
       IN  IF IsEmptyStr(stdin_content)
           THEN Exit(0) /\ UNCHANGED stderr
           ELSE IF ~hook_input.ok
           THEN /\ Exit(2)
                /\ stderr' = Append(stderr, "PARSE_ERROR: " \o hook_input.err)
           ELSE IF ~IsDict(hook_input.val)
           THEN Uncaught("AttributeError")
           ELSE LET transcript_path == Get(hook_input.val, "transcript_path", S(""))
                IN  IF ~Truthy(transcript_path)
                    THEN Exit(0) /\ UNCHANGED stderr
                    ELSE IF transcript_path.k # "str"
                    THEN Uncaught("TypeError")
                    ELSE /\ pc' = "open"
                         /\ UNCHANGED <<exit_code, exc, stderr>>
    /\ UNCHANGED <<stdin, snapshot, log, calls, events, latest_todos, tasks,
                   next_task_id, incomplete, stdout>>

\* main line 186 and find_incomplete_items lines 71-83: expand the path,
\* return [] when the file does not exist, else open it
OpenTranscript ==
    /\ pc = "open"
    /\ LET transcript_path == expanduser(Get(JsonLoads(read_stdin(stdin)).val, "transcript_path", S("")).v)
       IN  IF Exists(transcript_path) THEN pc' = "loop" ELSE pc' = "return"
    /\ UNCHANGED <<stdin, snapshot, log, calls, events, latest_todos, tasks,
                   next_task_id, incomplete, stdout, stderr, exit_code, exc>>

\* the last entry the loop parsed, as a stale binding of the variable entry
StaleEntry(lines) ==
    LET J == {j \in DOMAIN lines : JsonLoads(Strip(lines[j])).ok}
    IN  IF J = {} THEN Raise("NameError") ELSE Ok(lines[Max(J)].v)

\* the loop body as it would be if the except clause fell through instead of
\* continuing: the previous entry is processed again
ReadLineFallingThrough(line) ==
    /\ pc = "loop"
    /\ calls = <<>>
    /\ Len(log) < MaxLines
    /\ log' = Append(log, line)
    /\ LET stripped == Strip(line)
           parsed   == JsonLoads(stripped)
           entry    == IF parsed.ok THEN parsed ELSE StaleEntry(log)
           found    == extract_tool_calls_from_entry(entry.val)
       IN  IF IsEmptyStr(stripped)
           THEN UNCHANGED <<pc, calls, exit_code, exc, stderr>>
           ELSE IF ~entry.ok
           THEN Uncaught(entry.err) /\ UNCHANGED calls
           ELSE IF ~found.ok
           THEN Uncaught(found.err) /\ UNCHANGED calls
           ELSE /\ calls' = found.val
                /\ UNCHANGED <<pc, exit_code, exc, stderr>>
    /\ UNCHANGED <<stdin, snapshot, events, latest_todos, tasks, next_task_id,
                   incomplete, stdout>>

\* lines 84-95: the next line of the file: skipped when blank or not JSON,
\* else its tool calls are extracted
ReadLine(line) ==
    /\ pc = "loop"
    /\ calls = <<>>
    /\ Len(log) < MaxLines
    /\ log' = Append(log, line)
    /\ LET stripped == Strip(line)
           entry    == JsonLoads(stripped)
           found    == extract_tool_calls_from_entry(entry.val)
       IN  IF IsEmptyStr(stripped) \/ ~entry.ok
           THEN UNCHANGED <<pc, calls, exit_code, exc, stderr>>
           ELSE IF ~found.ok
           THEN Uncaught(found.err) /\ UNCHANGED calls
           ELSE /\ calls' = found.val
                /\ UNCHANGED <<pc, exit_code, exc, stderr>>
    /\ UNCHANGED <<stdin, snapshot, events, latest_todos, tasks, next_task_id,
                   incomplete, stdout>>

\* lines 95-135: one iteration of the loop over the entry's tool calls
ProcessCall ==
    /\ pc = "loop"
    /\ calls # <<>>
    /\ LET r == ApplyCall(Pass, Head(calls))
       IN  IF r.ok
           THEN /\ latest_todos' = r.val.latest_todos
                /\ tasks' = r.val.tasks
                /\ next_task_id' = r.val.next_task_id
                /\ UNCHANGED <<pc, exit_code, exc, stderr>>
           ELSE /\ Uncaught(r.err)
                /\ UNCHANGED <<latest_todos, tasks, next_task_id>>
    /\ calls' = Tail(calls)
    /\ events' = Append(events, Head(calls))
    /\ UNCHANGED <<stdin, snapshot, log, incomplete, stdout>>

\* end of file, lines 137-164: build and return the incomplete items
EndOfFile ==
    /\ pc = "loop"
    /\ calls = <<>>
    /\ LET r == BuildIncomplete(Pass)
       IN  IF r.ok
           THEN /\ incomplete' = r.val
                /\ pc' = "return"
                /\ UNCHANGED <<exit_code, exc, stderr>>
           ELSE /\ Uncaught(r.err)
                /\ UNCHANGED incomplete
    /\ UNCHANGED <<stdin, snapshot, log, calls, events, latest_todos, tasks,
                   next_task_id, stdout>>

\* main, lines 191-211: the report and the exit code
Report ==
    /\ pc = "return"
    /\ IF incomplete = <<>>
       THEN Exit(0) /\ UNCHANGED stdout
       ELSE /\ stdout' = stdout \o <<"INCOMPLETE_TODOS">> \o output_lines(incomplete)
            /\ Exit(1)
    /\ UNCHANGED <<stdin, snapshot, log, calls, events, latest_todos, tasks,
                   next_task_id, incomplete, stderr>>

Next ==
    \/ ReadHookInput
    \/ OpenTranscript
    \/ \E line \in Lines : ReadLine(line)
    \/ ProcessCall
    \/ EndOfFile
    \/ Report

Spec == Init /\ [][Next]_vars

(***************************************************************************)
(* Properties.  Helpers over the history of processed tool calls.          *)
(***************************************************************************)
IsCreate(ev) == ev.name = S("TaskCreate") /\ IsDict(ev.input)
IsUpdateOf(ev, id) ==
    ev.name = S("TaskUpdate") /\ IsDict(ev.input) /\ Get(ev.input, "taskId", S("")) = id

\* the id the i-th event, a TaskCreate, was stored under: the creates are numbered from 1
CreatedId(evs, i) == S(ToString(Cardinality({j \in 1..i : IsCreate(evs[j])})))

\* the call about to be processed
AtCall == pc = "loop" /\ calls # <<>>

\* C1: every TaskCreate is stored under an id that is not yet a key of tasks,
\* so it adds exactly one task and overwrites none.
C1_CreateNeverOverwrites ==
    [][(AtCall /\ IsCreate(Head(calls)))
          => /\ ~HasKey(tasks, S(ToString(next_task_id)))
             /\ Len(tasks') = Len(tasks) + 1]_vars

\* C2: the todo accumulator is the todos list of the last TodoWrite call that
\* carried a non-empty list, verbatim, and the empty list when there was none.
IsQualifyingWrite(ev) ==
    /\ ev.name = S("TodoWrite")
    /\ IsDict(ev.input)
    /\ Has(ev.input, "todos")
    /\ IsList(ev.input.v["todos"])
    /\ Len(ev.input.v["todos"].v) > 0

LastTodoList(evs) ==
    LET J == {j \in DOMAIN evs : IsQualifyingWrite(evs[j])}
    IN  IF J = {} THEN EmptyList ELSE evs[Max(J)].input.v["todos"]

C2_LastTodoWriteWins == latest_todos = LastTodoList(events)

C2_Witness ==
    /\ pc = "return"
    /\ \E i, j \in DOMAIN events :
          /\ i < j
          /\ IsQualifyingWrite(events[i]) /\ IsQualifyingWrite(events[j])
          /\ events[i].input # events[j].input
          /\ \A m \in (j + 1)..Len(events) : ~IsQualifyingWrite(events[m])
          /\ latest_todos = events[j].input.v["todos"]

\* C3: a created task has, for subject and description, the value of the last
\* later update naming its id that carries the field, else the create's value,
\* and as status that of the last such update carrying one, else "pending".
LastCarrying(evs, i, id, field, default) ==
    LET J == {j \in (i + 1)..Len(evs) : IsUpdateOf(evs[j], id) /\ Has(evs[j].input, field)}
    IN  IF J = {} THEN default ELSE evs[Max(J)].input.v[field]

C3_CreateThenUpdates ==
    \A i \in DOMAIN events :
        IsCreate(events[i]) =>
            LET id == CreatedId(events, i)
                c  == events[i].input
            IN  /\ HasKey(tasks, id)
                /\ Lookup(tasks, id).subject =
                       LastCarrying(events, i, id, "subject", Get(c, "subject", S("")))
                /\ Lookup(tasks, id).description =
                       LastCarrying(events, i, id, "description", Get(c, "description", S("")))
                /\ Lookup(tasks, id).status =
                       LastCarrying(events, i, id, "status", S("pending"))

C3_Witness ==
    /\ pc = "return"
    /\ \E i, j \in DOMAIN events :
          /\ i < j
          /\ IsCreate(events[i])
          /\ Has(events[i].input, "status") /\ Has(events[i].input, "description")
          /\ IsUpdateOf(events[j], CreatedId(events, i))
          /\ Has(events[j].input, "subject") /\ ~Has(events[j].input, "status")
          /\ Lookup(tasks, CreatedId(events, i)).status = S("pending")
          /\ Lookup(tasks, CreatedId(events, i)).subject = events[j].input.v["subject"]
          /\ Lookup(tasks, CreatedId(events, i)).description = events[i].input.v["description"]

\* C4: a TaskUpdate naming an id that is not yet a key adds exactly one task,
\* under that id, leaving every other entry as it was; its subject is the
\* update's or "Task <id>", its description the update's or empty, its status
\* the update's or "pending".
NamesUnseenId(ev, ts) ==
    /\ ev.name = S("TaskUpdate")
    /\ IsDict(ev.input)
    /\ Has(ev.input, "taskId")
    /\ ev.input.v["taskId"].k = "str"
    /\ ev.input.v["taskId"].v # ""
    /\ ev.input.v["taskId"] \notin Keys(ts)

C4_UpdateMaterializesOne ==
    [][(AtCall /\ NamesUnseenId(Head(calls), tasks))
          => LET u  == Head(calls).input
                 id == u.v["taskId"]
             IN  tasks' = Append(tasks,
                     Task(id,
                          IF Has(u, "subject") THEN u.v["subject"] ELSE S("Task " \o id.v),
                          IF Has(u, "description") THEN u.v["description"] ELSE S(""),
                          IF Has(u, "status") THEN u.v["status"] ELSE S("pending")))]_vars

C4_Witness ==
    /\ events # <<>>
    /\ LET ev == events[Len(events)]
       IN  /\ NamesUnseenId(ev, <<>>)
           /\ ~Has(ev.input, "subject") /\ ~Has(ev.input, "status")
           /\ \A j \in 1..(Len(events) - 1) :
                 ~IsUpdateOf(events[j], ev.input.v["taskId"]) /\ ~IsCreate(events[j])
           /\ Len(events) > 1
           /\ tasks # <<>>
           /\ tasks[Len(tasks)] =
                 Task(ev.input.v["taskId"], S("Task " \o ev.input.v["taskId"].v),
                      S(""), S("pending"))

\* C5: the returned list holds exactly one todo item for each live todo whose
\* status is not "completed", with its status and content, exactly one task
\* item for each task whose status is not "completed", with its id, and
\* nothing else.
TodoStatus(todo) == Get(todo, "status", S(""))
LiveTodos == {j \in DOMAIN latest_todos.v : TodoStatus(latest_todos.v[j]) # S("completed")}
ItemOfTodo(j) ==
    TodoItem(TodoStatus(latest_todos.v[j]), Get(latest_todos.v[j], "content", S("")))
ItemsFrom(source) == {i \in DOMAIN incomplete : incomplete[i].source = source}

C5_ExactlyTheIncomplete ==
    pc = "return" =>
        /\ IsList(latest_todos)
        /\ \A i \in DOMAIN incomplete : incomplete[i].source \in {"todo", "task"}
        /\ Cardinality(ItemsFrom("todo")) = Cardinality(LiveTodos)
        /\ \A j \in LiveTodos :
              Cardinality({i \in ItemsFrom("todo") : incomplete[i] = ItemOfTodo(j)})
                  = Cardinality({m \in LiveTodos : ItemOfTodo(m) = ItemOfTodo(j)})
        /\ \A i \in ItemsFrom("task") : HasKey(tasks, incomplete[i].task_id)
        /\ \A n \in DOMAIN tasks :
              LET mine == {i \in ItemsFrom("task") : incomplete[i].task_id = tasks[n].id}
              IN  IF tasks[n].status = S("completed") THEN mine = {}
                  ELSE /\ Cardinality(mine) = 1
                       /\ \A i \in mine : incomplete[i].status = tasks[n].status

C5_Witness ==
    /\ pc = "return"
    /\ \E i, j \in DOMAIN events :
          /\ i < j
          /\ IsCreate(events[i])
          /\ IsUpdateOf(events[j], CreatedId(events, i))
          /\ Lookup(tasks, CreatedId(events, i)).status = S("completed")
    /\ ItemsFrom("task") = {}
    /\ ItemsFrom("todo") # {}
    /\ Cardinality(LiveTodos) < Len(latest_todos.v)

\* C6: the process exits with code 1 exactly when the list of incomplete items
\* is non-empty, and with code 0 when there is no usable input.
TranscriptPath == Get(JsonLoads(Strip(stdin)).val, "transcript_path", S(""))
NoUsableInput ==
    \/ IsEmptyStr(stdin)
    \/ /\ JsonLoads(Strip(stdin)).ok
       /\ IsDict(JsonLoads(Strip(stdin)).val)
       /\ \/ ~Truthy(TranscriptPath)
          \/ TranscriptPath.k = "str" /\ ~Exists(expanduser(TranscriptPath.v))
          \/ TranscriptPath.k = "str" /\ log = <<>>

C6_ExitOneIffIncomplete ==
    pc = "exited" =>
        /\ (exit_code = 1) <=> (incomplete # <<>>)
        /\ NoUsableInput => exit_code = 0

\* C7: no exception escapes the pass over the transcript, whatever its lines hold.
C7_NoExceptionEscapesThePass == (log # <<>>) => (exc = "")

\* C8: the pass gives what it gives on the same log without its blank and
\* unparsable lines: such a line changes no accumulator, and the other lines
\* contribute as if it were absent.
RECURSIVE ApplyCalls(_, _)
ApplyCalls(st, cs) ==
    IF cs = <<>> THEN Ok(st)
    ELSE LET r == ApplyCall(st, Head(cs))
         IN  IF r.ok THEN ApplyCalls(r.val, Tail(cs)) ELSE r

RECURSIVE RunEntries(_, _)
RunEntries(st, entries) ==
    IF entries = <<>> THEN Ok(st)
    ELSE LET found == extract_tool_calls_from_entry(Head(entries))
             r     == IF found.ok THEN ApplyCalls(st, found.val) ELSE found
         IN  IF r.ok THEN RunEntries(r.val, Tail(entries)) ELSE r

WellFormed(lines) == SelectSeq(lines, LAMBDA t : t.k = "json")
EntriesOf(lines) == [i \in DOMAIN lines |-> lines[i].v]
WithoutMalformed == RunEntries(InitPass, EntriesOf(WellFormed(log)))
ResultWithoutMalformed ==
    IF WithoutMalformed.ok THEN BuildIncomplete(WithoutMalformed.val) ELSE WithoutMalformed

C8_MalformedLinesAreSkipped ==
    /\ (pc \in {"loop", "return"} /\ calls = <<>>)
          => WithoutMalformed.ok /\ Pass = WithoutMalformed.val
    /\ pc = "return" => ResultWithoutMalformed.ok /\ incomplete = ResultWithoutMalformed.val
    /\ (pc = "exited" /\ log # <<>>) => (exc = "" <=> ResultWithoutMalformed.ok)

C8_Witness ==
    /\ pc = "return"
    /\ Len(log) = 3
    /\ log[1].k = "json" /\ log[2].k = "bad" /\ log[3].k = "json"
    /\ Len(events) >= 2
    /\ tasks # <<>>
    /\ incomplete # <<>>

\* C9 as stated: a non-empty stdin that is not valid JSON makes the process
\* exit with code 2, with a diagnostic on stderr and nothing on stdout, and
\* code 2 occurs in no other case.
C9_Original ==
    pc = "exited" =>
        /\ (exit_code = 2) <=> (~IsEmptyStr(stdin) /\ ~JsonLoads(stdin).ok)
        /\ exit_code = 2 => stderr # <<>> /\ stdout = <<>>

\* C9 amended: a stdin that is non-empty once its surrounding whitespace is
\* stripped and is not valid JSON makes the process exit with code 2, with a
\* diagnostic on stderr and nothing on stdout; code 2 occurs in no other case.
C9_ParseErrorExitsTwo ==
    pc = "exited" =>
        /\ (exit_code = 2) <=> (~IsEmptyStr(Strip(stdin)) /\ ~JsonLoads(Strip(stdin)).ok)
        /\ exit_code = 2 => stderr = <<"PARSE_ERROR: JSONDecodeError">> /\ stdout = <<>>

C9_Witness == pc = "exited" /\ exit_code = 2 /\ stdin.k = "bad" /\ stderr # <<>>

\* C10: when the session has a snapshot, the task items of the output are
\* those of the snapshot alone, whatever the log holds.
SnapshotContent(id, fields) ==
    PyOr(PyOr(Get(fields, "subject", S("")), Get(fields, "description", S(""))),
         S("Task " \o id))

\* the snapshot reader of the specification: one incomplete task per file
\* whose status is neither "completed" nor "deleted"
SnapshotItems(snap) ==
    {TaskItem(Get(f.fields, "status", S("pending")), SnapshotContent(f.id, f.fields), S(f.id)) :
        f \in {snap.files[i] : i \in {i \in DOMAIN snap.files :
                  Get(snap.files[i].fields, "status", S("pending"))
                      \notin {S("completed"), S("deleted")}}}}

C10_SnapshotSupersedesLedger ==
    (pc = "return" /\ snapshot.present)
        => {incomplete[i] : i \in ItemsFrom("task")} = SnapshotItems(snapshot)


\* C11: a snapshot file whose status is "completed" or "deleted" yields no
\* item, and one whose status is "in_progress", "pending" or absent yields
\* exactly one task item whose id is the file's name; a pending file with an
\* empty log gives exit code 1.
SnapshotStatus(f) == Get(f.fields, "status", S("pending"))

C11_SnapshotFilesYieldItems ==
    (pc \in {"return", "exited"} /\ exc = "" /\ snapshot.present
        /\ JsonLoads(Strip(stdin)).ok /\ TranscriptPath.k = "str" /\ Truthy(TranscriptPath))
        => /\ \A n \in DOMAIN snapshot.files :
                LET f    == snapshot.files[n]
                    mine == {i \in ItemsFrom("task") : incomplete[i].task_id = S(f.id)}
                IN  IF SnapshotStatus(f) \in {S("completed"), S("deleted")}
                    THEN mine = {}
                    ELSE Cardinality(mine) = 1
           /\ pc = "exited" => exit_code = 1

\* C12: every todo item precedes every task item; the todo items are in the
\* order of the live todo list, and the task items in the order in which their
\* ids were first put into tasks, whatever updates came later.
InsertsKey(evs, i, id) ==
    \/ IsCreate(evs[i]) /\ CreatedId(evs, i) = id
    \/ IsUpdateOf(evs[i], id) /\ Truthy(id) /\ Hashable(id)
FirstInserted(evs, id) ==
    CHOOSE i \in DOMAIN evs :
        InsertsKey(evs, i, id) /\ \A j \in 1..(i - 1) : ~InsertsKey(evs, j, id)

C12_ReconciledOrder ==
    pc = "return" =>
        /\ \A i, j \in DOMAIN incomplete :
              (incomplete[i].source = "todo" /\ incomplete[j].source = "task") => i < j
        /\ SelectSeq(incomplete, LAMBDA x : x.source = "todo")
              = [n \in 1..Cardinality(LiveTodos) |->
                    ItemOfTodo(CHOOSE j \in LiveTodos :
                                  Cardinality({m \in LiveTodos : m <= j}) = n)]
        /\ \A i, j \in ItemsFrom("task") :
              i < j => FirstInserted(events, incomplete[i].task_id)
                          < FirstInserted(events, incomplete[j].task_id)

C12_Witness ==
    /\ pc = "return"
    /\ Len(events) = 3
    /\ IsCreate(events[1])
    /\ InsertsKey(events, 2, S("7"))
    /\ IsUpdateOf(events[3], S("1"))
    /\ Len(incomplete) = 2
    /\ incomplete[1].task_id = S("1") /\ incomplete[2].task_id = S("7")

\* C13: a TodoWrite whose todos is absent or empty changes nothing: the todo
\* list seen before, the tasks and the id counter stay as they were.
IsEmptyWrite(ev) ==
    /\ ev.name = S("TodoWrite")
    /\ IsDict(ev.input)
    /\ ~Has(ev.input, "todos") \/ ev.input.v["todos"] = EmptyList

C13_EmptyWriteIsNoOp ==
    [][(AtCall /\ IsEmptyWrite(Head(calls)))
          => UNCHANGED <<latest_todos, tasks, next_task_id>>]_vars

C13_Witness ==
    /\ pc = "return"
    /\ Len(events) >= 3
    /\ IsQualifyingWrite(events[1])
    /\ IsEmptyWrite(events[Len(events)]) /\ Has(events[Len(events)].input, "todos") = FALSE
    /\ IsEmptyWrite(events[Len(events) - 1]) /\ Has(events[Len(events) - 1].input, "todos")
    /\ latest_todos = events[1].input.v["todos"]


\* C14: a TaskUpdate with no taskId, or an empty one, is ignored: tasks, the
\* id counter and the todo list stay as they were, and no placeholder appears
\* even when the update carries subject, description or status.
IsUpdateWithoutId(ev) ==
    /\ ev.name = S("TaskUpdate")
    /\ IsDict(ev.input)
    /\ ~Has(ev.input, "taskId") \/ ev.input.v["taskId"] = S("")

C14_UpdateWithoutIdIsIgnored ==
    [][(AtCall /\ IsUpdateWithoutId(Head(calls)))
          => UNCHANGED <<latest_todos, tasks, next_task_id>>]_vars

C14_Witness ==
    /\ pc = "return"
    /\ \E i, j \in DOMAIN events :
          /\ IsUpdateWithoutId(events[i]) /\ ~Has(events[i].input, "taskId")
          /\ Has(events[i].input, "subject") /\ Has(events[i].input, "status")
          /\ IsUpdateWithoutId(events[j]) /\ Has(events[j].input, "taskId")
    /\ IsCreate(events[1])
    /\ Len(tasks) = 1

\* C15: the tool calls of a record, in entry order: for type "assistant" one
\* per entry of message.content that has type "tool_use" and a non-empty
\* name, for type "message" the same over content, for type "tool_use" the
\* record itself, named by name or else tool_name, with input or else
\* tool_input as arguments; nothing without a usable name or for another type.
IsNamedToolUse(e) ==
    /\ e.k = "obj"
    /\ "type" \in DOMAIN e.v /\ e.v["type"] = S("tool_use")
    /\ "name" \in DOMAIN e.v /\ Truthy(e.v["name"])

EventOfEntry(e) ==
    Call(e.v["name"], IF "input" \in DOMAIN e.v THEN e.v["input"] ELSE EmptyDict)

EventsOfEntries(holder) ==
    IF "content" \in DOMAIN holder.v /\ holder.v["content"].k = "list"
    THEN LET named == SelectSeq(holder.v["content"].v, IsNamedToolUse)
         IN  [i \in DOMAIN named |-> EventOfEntry(named[i])]
    ELSE <<>>

FirstNonEmpty(rec, a, b, default) ==
    IF a \in DOMAIN rec.v /\ Truthy(rec.v[a]) THEN rec.v[a]
    ELSE IF b \in DOMAIN rec.v THEN rec.v[b] ELSE default

EventsOfRecord(rec) ==
    LET type == IF "type" \in DOMAIN rec.v THEN rec.v["type"] ELSE Null
    IN  CASE type = S("assistant") ->
                IF "message" \in DOMAIN rec.v THEN EventsOfEntries(rec.v["message"]) ELSE <<>>
          [] type = S("message")  -> EventsOfEntries(rec)
          [] type = S("tool_use") ->
                IF Truthy(FirstNonEmpty(rec, "name", "tool_name", S("")))
                THEN <<Call(FirstNonEmpty(rec, "name", "tool_name", S("")),
                            FirstNonEmpty(rec, "input", "tool_input", EmptyDict))>>
                ELSE <<>>
          [] OTHER -> <<>>

RECURSIVE EventsOfLines(_)
EventsOfLines(lines) ==
    IF lines = <<>> THEN <<>>
    ELSE IF Head(lines).k = "json"
         THEN EventsOfRecord(Head(lines).v) \o EventsOfLines(Tail(lines))
         ELSE EventsOfLines(Tail(lines))

C15_ExtractedEvents ==
    (pc \in {"loop", "return"} /\ exc = "") => events \o calls = EventsOfLines(log)

C15_Witness ==
    /\ pc = "loop"
    /\ Len(log) = 2
    /\ log[1].k = "json" /\ log[1].v.v["type"] = S("tool_use")
    /\ log[1].v.v["name"] = S("") /\ log[1].v.v["input"] = EmptyDict
    /\ events = <<Call(log[1].v.v["tool_name"], log[1].v.v["tool_input"])>>
    /\ log[2].k = "json" /\ log[2].v.v["type"] = S("assistant")
    /\ Len(log[2].v.v["message"].v["content"].v) = 6
    /\ Len(calls) = 3

\* C16: for a non-empty list stdout is the line INCOMPLETE_TODOS followed by
\* one line per item, in order, with the status in brackets, "(Task #<id>)"
\* before the content of a task item and no such marker for a todo item; for
\* an empty list stdout stays empty.
LineOf(item) ==
    IF item.source = "task"
    THEN "  - [" \o PyStr(item.status) \o "] (Task #" \o PyStr(item.task_id) \o ") "
            \o PyStr(item.content)
    ELSE "  - [" \o PyStr(item.status) \o "] " \o PyStr(item.content)

C16_ReportLines ==
    (pc = "exited" /\ exc = "") =>
        IF incomplete = <<>> THEN stdout = <<>>
        ELSE /\ Len(stdout) = Len(incomplete) + 1
             /\ stdout[1] = "INCOMPLETE_TODOS"
             /\ \A i \in DOMAIN incomplete : stdout[i + 1] = LineOf(incomplete[i])

C16_Witness ==
    /\ pc = "exited"
    /\ exit_code = 1
    /\ stdout = <<"INCOMPLETE_TODOS", "  - [pending] a", "  - [pending] (Task #1) s1">>


\* C17: a key of tasks stays a key, and the subject, description and status
\* stored under it change only when a TaskUpdate naming that id is processed.
C17_TasksOnlyChangeByTheirUpdates ==
    [][\A id \in Keys(tasks) :
          /\ HasKey(tasks', id)
          /\ Lookup(tasks', id) # Lookup(tasks, id)
                => AtCall /\ IsUpdateOf(Head(calls), id)]_vars

\* C18: the id counter is 1 plus the number of TaskCreate calls processed, and
\* the k-th TaskCreate is stored under str(k), whatever calls are interleaved
\* and whatever id its payload declares.
CreatesIn(evs) == {i \in DOMAIN evs : IsCreate(evs[i])}

C18_CounterCountsCreates ==
    /\ next_task_id = 1 + Cardinality(CreatesIn(events))
    /\ \A k \in 1..Cardinality(CreatesIn(events)) : HasKey(tasks, S(ToString(k)))
    /\ Len(tasks) >= Cardinality(CreatesIn(events))

C18_StoredUnderCount ==
    [][(AtCall /\ IsCreate(Head(calls)))
          => LET k == 1 + Cardinality(CreatesIn(events))
             IN  /\ HasKey(tasks', S(ToString(k)))
                 /\ Lookup(tasks', S(ToString(k))) =
                       Task(S(ToString(k)), Get(Head(calls).input, "subject", S("")),
                            Get(Head(calls).input, "description", S("")), S("pending"))
                 /\ Keys(tasks') = Keys(tasks) \cup {S(ToString(k))}]_vars

C18_CounterAndIds == []C18_CounterCountsCreates /\ C18_StoredUnderCount

C18_Witness ==
    /\ pc = "return"
    /\ Len(events) = 3
    /\ InsertsKey(events, 1, S("7")) /\ ~IsCreate(events[1])
    /\ IsCreate(events[2]) /\ ~Has(events[2].input, "taskId")
    /\ IsCreate(events[3]) /\ Get(events[3].input, "taskId", Null) = S("7")
    /\ next_task_id = 3
    /\ Lookup(tasks, S("2")).subject = events[3].input.v["subject"]
    /\ Keys(tasks) = {S("7"), S("1"), S("2")}

\* C19: the reducers do not interfere: a TodoWrite leaves tasks and the id
\* counter as they were, a TaskCreate or TaskUpdate leaves the todo list as it
\* was, any other tool leaves all three; so the todo list is a function of
\* the TodoWrite calls alone and the tasks and counter of the Task calls alone.
IsTaskCall(ev) == ev.name \in {S("TaskCreate"), S("TaskUpdate")}
IsWriteCall(ev) == ev.name = S("TodoWrite")

C19_Frame ==
    [][AtCall =>
          /\ IsWriteCall(Head(calls)) => UNCHANGED <<tasks, next_task_id>>
          /\ IsTaskCall(Head(calls)) => UNCHANGED latest_todos
          /\ (~IsWriteCall(Head(calls)) /\ ~IsTaskCall(Head(calls)))
                => UNCHANGED <<latest_todos, tasks, next_task_id>>]_vars

C19_Projections ==
    (pc \in {"loop", "return"} /\ exc = "") =>
        LET w == ApplyCalls(InitPass, SelectSeq(events, IsWriteCall))
            t == ApplyCalls(InitPass, SelectSeq(events, IsTaskCall))
        IN  /\ w.ok /\ latest_todos = w.val.latest_todos
            /\ t.ok /\ tasks = t.val.tasks /\ next_task_id = t.val.next_task_id

C19_ReducersDoNotInterfere == []C19_Projections /\ C19_Frame

C19_Witness ==
    /\ pc = "return"
    /\ Len(events) = 3
    /\ IsCreate(events[1])
    /\ IsQualifyingWrite(events[2])
    /\ IsUpdateOf(events[3], S("1")) /\ Has(events[3].input, "subject")
    /\ latest_todos = events[2].input.v["todos"]
    /\ Len(tasks) = 1 /\ tasks[1].subject = events[3].input.v["subject"]
    /\ next_task_id = 2

\* C20: the content of a task item is the task's subject when that is
\* non-empty and else its description, never "Task <id>" made up at this
\* stage: a task created with neither is reported with empty content.
C20_ContentIsSubjectElseDescription ==
    pc = "return" =>
        \A i \in ItemsFrom("task") :
            LET task == Lookup(tasks, incomplete[i].task_id)
            IN  incomplete[i].content =
                   IF Truthy(task.subject) THEN task.subject ELSE task.description

C20_Witness ==
    /\ pc = "return"
    /\ \E i \in DOMAIN events :
          /\ IsCreate(events[i])
          /\ events[i].input = EmptyDict
          /\ \E n \in ItemsFrom("task") :
                /\ incomplete[n].task_id = CreatedId(events, i)
                /\ incomplete[n].content = S("")

====
